---------------------------- MODULE Spec2Model ----------------------------
(***************************************************************************)
(* A model of buildbucket.py: one invocation of main(), from the parsed    *)
(* command line to the exit status.                                        *)
(*                                                                         *)
(* Texts (file contents, request bodies, response bodies, paths, URLs) are *)
(* sequences of atoms.  An atom is one character, or a run of characters   *)
(* that no operation of the program ever splits (a literal of the program, *)
(* the JSON literal null, a path).                                        *)
(*                                                                         *)
(* Python values are tagged records.  Each tag has its own field name, so  *)
(* that values of two tags are unequal without comparing their payloads.   *)
(***************************************************************************)
EXTENDS Integers, Sequences, FiniteSets, TLC

---------------------------------------------------------------------------
(* Python values *)

None == [t |-> "null"]
Num(digits) == [t |-> "num", n |-> digits]
Str(chars) == [t |-> "str", s |-> chars]
List(xs) == [t |-> "list", items |-> xs]
Dict(f) == [t |-> "dict", d |-> f]
Bool(b) == [t |-> "bool", b |-> b]

EmptyDict == Dict([k \in {} |-> None])

IsStr(v) == v.t = "str"
IsList(v) == v.t = "list"
IsDict(v) == v.t = "dict"

\* bool(v) of an optional string argument: None and '' are false.
Truthy(v) ==
  CASE v.t = "null" -> FALSE
    [] v.t = "str" -> v.s # <<>>
    [] v.t = "list" -> v.items # <<>>
    [] v.t = "dict" -> DOMAIN v.d # {}
    [] v.t = "bool" -> v.b
    [] OTHER -> TRUE

\* hash(v) is defined: lists and dicts are unhashable.
Hashable(v) == v.t \in {"null", "num", "str", "bool"}

RECURSIVE SetToSeq(_)
\* The iteration order of a dict: arbitrary, and fixed for a given key set.
SetToSeq(S) ==
  IF S = {} THEN <<>>
  ELSE LET x == CHOOSE y \in S : TRUE IN <<x>> \o SetToSeq(S \ {x})

DictKeys(v) == SetToSeq(DOMAIN v.d)

\* d[k] = x
DictSet(v, k, x) ==
  Dict([j \in (DOMAIN v.d) \cup {k} |-> IF j = k THEN x ELSE v.d[j]])

\* iter(v): the elements a for loop over v yields; defined when Iterable(v).
Iterable(v) == v.t \in {"str", "list", "dict"}

Elements(v) ==
  CASE v.t = "list" -> v.items
    [] v.t = "dict" -> DictKeys(v)
    [] v.t = "str" -> [i \in 1..Len(v.s) |-> Str(<<v.s[i]>>)]

---------------------------------------------------------------------------
(* json.dumps, with the default separators ', ' and ': ' *)

RECURSIVE EscapeChars(_)
\* Every quote and backslash of s gets a backslash before it.  The text is
\* halved rather than walked, which keeps the evaluation shallow.
EscapeChars(s) ==
  IF Len(s) = 0 THEN <<>>
  ELSE IF Len(s) = 1
       THEN IF s[1] \in {"\"", "\\"} THEN <<"\\", s[1]>> ELSE s
  ELSE LET h == Len(s) \div 2 IN
         EscapeChars(SubSeq(s, 1, h)) \o EscapeChars(SubSeq(s, h + 1, Len(s)))

EncodeString(s) == <<"\"">> \o EscapeChars(s) \o <<"\"">>

\* A dict key as json.dumps writes it: numbers and None become strings.
KeyText(k) ==
  CASE k.t = "str" -> k.s
    [] k.t = "num" -> k.n
    [] k.t = "null" -> <<"null">>
    [] k.t = "bool" -> IF k.b THEN <<"true">> ELSE <<"false">>

RECURSIVE Dumps(_), DumpItems(_), DumpPairs(_, _)

DumpItems(xs) ==
  IF xs = <<>> THEN <<>>
  ELSE Dumps(Head(xs))
         \o (IF Len(xs) > 1 THEN <<",", " ">> ELSE <<>>)
         \o DumpItems(Tail(xs))

DumpPairs(f, ks) ==
  IF ks = <<>> THEN <<>>
  ELSE EncodeString(KeyText(Head(ks))) \o <<":", " ">> \o Dumps(f[Head(ks)])
         \o (IF Len(ks) > 1 THEN <<",", " ">> ELSE <<>>)
         \o DumpPairs(f, Tail(ks))

Dumps(v) ==
  CASE v.t = "null" -> <<"null">>
    [] v.t = "bool" -> IF v.b THEN <<"true">> ELSE <<"false">>
    [] v.t = "num" -> v.n
    [] v.t = "str" -> EncodeString(v.s)
    [] v.t = "list" -> <<"[">> \o DumpItems(v.items) \o <<"]">>
    [] v.t = "dict" -> <<"{">> \o DumpPairs(v.d, DictKeys(v)) \o <<"}">>

---------------------------------------------------------------------------
(* json.loads: a recursive-descent parser.  A parse result is              *)
(* [ok |-> TRUE, v |-> value, i |-> index after it] or [ok |-> FALSE],     *)
(* the latter standing for the ValueError the decoder raises.              *)

Digits == {"1", "2", "4"}
Whitespace == {" "}

Fail == [ok |-> FALSE]
Ok(v, i) == [ok |-> TRUE, v |-> v, i |-> i]

RECURSIVE SkipWs(_, _)
SkipWs(s, i) ==
  IF i <= Len(s) /\ s[i] \in Whitespace THEN SkipWs(s, i + 1) ELSE i

RECURSIVE ScanNumber(_, _, _)
ScanNumber(s, i, acc) ==
  IF i <= Len(s) /\ s[i] \in Digits
  THEN ScanNumber(s, i + 1, Append(acc, s[i]))
  ELSE Ok(Num(acc), i)

\* The number of backslashes right before s[j], none counted before s[i].
BackslashRun(s, i, j) ==
  CHOOSE r \in 0..(j - i) :
    /\ \A m \in (j - r)..(j - 1) : s[m] = "\\"
    /\ j - r = i \/ s[j - r - 1] # "\\"

\* s[j] is escaped: the scanner, started at s[i], reads it as the second
\* character of a backslash pair.
Escaped(s, i, j) == BackslashRun(s, i, j) % 2 = 1

\* s[j] is a quote that ends the string started at s[i].
Closes(s, i, j) == s[j] = "\"" /\ ~Escaped(s, i, j)

\* The backslashes of s[i..e-1] that escape the character after them.
Escapes(s, i, e) == {p \in i..(e - 1) : s[p] = "\\" /\ ~Escaped(s, i, p)}

IsKept(c) == c[1]

\* s[i..e-1] without the backslashes esc.
Unescaped(s, i, e, esc) ==
  SelectSeq([p \in 1..(e - i) |-> <<(i + p - 1) \notin esc, s[i + p - 1]>>],
            IsKept)

Chars(kept) == [k \in 1..Len(kept) |-> kept[k][2]]

\* The string s[i..e-1], closed by the quote s[e]: a backslash that escapes
\* anything but a quote or a backslash is an invalid escape.
StringUpTo(s, i, e, esc) ==
  IF \E p \in esc : s[p + 1] \notin {"\"", "\\"} THEN Fail
  ELSE Ok(Str(Chars(Unescaped(s, i, e, esc))), e + 1)

FirstClosing(s, i) ==
  CHOOSE j \in i..Len(s) :
    Closes(s, i, j) /\ \A k \in i..(j - 1) : ~Closes(s, i, k)

StringClosedAt(s, i, e) == StringUpTo(s, i, e, Escapes(s, i, e))

\* The string whose opening quote is s[i - 1]: it ends at the first quote
\* that is not escaped.  Stated over positions rather than as the scanner's
\* loop, which keeps the evaluation shallow.
ScanString(s, i) ==
  IF \E j \in i..Len(s) : Closes(s, i, j)
  THEN StringClosedAt(s, i, FirstClosing(s, i))
  ELSE Fail

RECURSIVE ParseValue(_, _), ParseArray(_, _, _), ParseObject(_, _, _)

\* After an element, at s[j]: ']' ends the array, ',' continues it.
ArrayNext(s, xs, j) ==
  IF j > Len(s) THEN Fail
  ELSE IF s[j] = "]" THEN Ok(List(xs), j + 1)
  ELSE IF s[j] = "," THEN ParseArray(s, SkipWs(s, j + 1), xs)
  ELSE Fail

ArrayElement(s, acc, r) ==
  IF r.ok THEN ArrayNext(s, Append(acc, r.v), SkipWs(s, r.i)) ELSE Fail

\* s[i] starts the next element; acc holds the elements read so far.
ParseArray(s, i, acc) == ArrayElement(s, acc, ParseValue(s, i))

\* After a pair, at s[j]: '}' ends the object, ',' continues it.
ObjectNext(s, d, j) ==
  IF j > Len(s) THEN Fail
  ELSE IF s[j] = "}" THEN Ok(d, j + 1)
  ELSE IF s[j] = "," THEN ParseObject(s, SkipWs(s, j + 1), d)
  ELSE Fail

\* A repeated key keeps its last value.
ObjectValue(s, acc, key, r) ==
  IF r.ok THEN ObjectNext(s, DictSet(acc, key, r.v), SkipWs(s, r.i)) ELSE Fail

\* After a key, at s[c]: a colon, then the value.
ObjectColon(s, acc, key, c) ==
  IF c > Len(s) \/ s[c] # ":" THEN Fail
  ELSE ObjectValue(s, acc, key, ParseValue(s, SkipWs(s, c + 1)))

ObjectKey(s, acc, k) ==
  IF k.ok THEN ObjectColon(s, acc, k.v, SkipWs(s, k.i)) ELSE Fail

\* s[i] starts the next key; acc holds the pairs read so far.
ParseObject(s, i, acc) ==
  IF i > Len(s) \/ s[i] # "\"" THEN Fail
  ELSE ObjectKey(s, acc, ScanString(s, i + 1))

\* After '[', at s[j].
ArrayBody(s, j) ==
  IF j <= Len(s) /\ s[j] = "]" THEN Ok(List(<<>>), j + 1)
  ELSE ParseArray(s, j, <<>>)

\* After '{', at s[j].
ObjectBody(s, j) ==
  IF j <= Len(s) /\ s[j] = "}" THEN Ok(EmptyDict, j + 1)
  ELSE ParseObject(s, j, EmptyDict)

ParseValue(s, i) ==
  IF i > Len(s) THEN Fail
  ELSE CASE s[i] = "null" -> Ok(None, i + 1)
         [] s[i] = "true" -> Ok(Bool(TRUE), i + 1)
         [] s[i] = "false" -> Ok(Bool(FALSE), i + 1)
         [] s[i] \in Digits -> ScanNumber(s, i, <<>>)
         [] s[i] = "\"" -> ScanString(s, i + 1)
         [] s[i] = "[" -> ArrayBody(s, SkipWs(s, i + 1))
         [] s[i] = "{" -> ObjectBody(s, SkipWs(s, i + 1))
         [] OTHER -> Fail

\* The whole text must be one value, whitespace around it allowed.
WholeText(s, r) ==
  IF r.ok /\ SkipWs(s, r.i) = Len(s) + 1 THEN [ok |-> TRUE, v |-> r.v]
  ELSE Fail

\* json.loads(s): [ok |-> TRUE, v |-> value], or [ok |-> FALSE] for ValueError.
Loads(s) == WholeText(s, ParseValue(s, SkipWs(s, 1)))

---------------------------------------------------------------------------
(* The operations of Python's list and dict that main() uses.  A result is *)
(* [exc |-> "none", v |-> value] or [exc |-> the exception raised].        *)

Returns(v) == [exc |-> "none", v |-> v]
Raises(e) == [exc |-> e]

\* changes.extend(v): any iterable is accepted, a dict yields its keys and a
\* string its characters.
ListExtend(l, v) ==
  IF Iterable(v) THEN Returns(List(l.items \o Elements(v)))
  ELSE Raises("TypeError")

RECURSIVE MergeFromSeq2(_, _)
\* dict.update over a sequence of elements: each must be an iterable of
\* exactly two items, the first of them hashable.
MergeFromSeq2(d, es) ==
  IF es = <<>> THEN Returns(d)
  ELSE LET e == Head(es) IN
    IF ~Iterable(e) THEN Raises("TypeError")
    ELSE LET kv == Elements(e) IN
      IF Len(kv) # 2 THEN Raises("ValueError")
      ELSE IF ~Hashable(kv[1]) THEN Raises("TypeError")
      ELSE MergeFromSeq2(DictSet(d, kv[1], kv[2]), Tail(es))

RECURSIVE MergeKeys(_, _, _)
MergeKeys(d, src, ks) ==
  IF ks = <<>> THEN d
  ELSE MergeKeys(DictSet(d, Head(ks), src.d[Head(ks)]), src, Tail(ks))

\* properties.update(v)
DictUpdate(d, v) ==
  IF IsDict(v) THEN Returns(MergeKeys(d, v, DictKeys(v)))
  ELSE IF Iterable(v) THEN MergeFromSeq2(d, Elements(v))
  ELSE Raises("TypeError")

\* v[k] for a string k
GetItem(v, k) ==
  IF IsDict(v)
  THEN IF k \in DOMAIN v.d THEN Returns(v.d[k]) ELSE Raises("KeyError")
  ELSE Raises("TypeError")

\* '%s' % v
Format(v) ==
  CASE v.t = "str" -> v.s
    [] v.t = "num" -> v.n
    [] v.t = "null" -> <<"None">>
    [] v.t = "bool" -> IF v.b THEN <<"True">> ELSE <<"False">>
    [] OTHER -> <<"repr">> \o Dumps(v)

---------------------------------------------------------------------------
(* Program constants *)

BUILDBUCKET_URL == <<"https://cr-buildbucket.appspot.com">>

\* urlparse.urljoin(BUILDBUCKET_URL, '_ah/api/buildbucket/v1/builds'): the
\* base has an empty path, so the relative path is attached under '/'.
BUILDBUCKET_API_URL == BUILDBUCKET_URL \o <<"/", "_ah/api/buildbucket/v1/builds">>

ContentTypeHeaders ==
  Dict([k \in {Str(<<"Content-Type">>)} |-> Str(<<"application/json">>)])

---------------------------------------------------------------------------
(* The inputs of one invocation: the command line, the files and standard  *)
(* input it reads, the response of the service, and whether the            *)
(* response-capture file can be written.                                   *)

\* The longest list of changes the changes file holds.
MaxChanges == 2

Commands == {"get", "put", "retry"}

Ids == {Str(<<"X">>), Str(<<"4", "2">>)}
Buckets == {Str(<<"B">>)}
Builders == {Str(<<"N">>)}
ChangesPaths == {Str(<<>>), Str(<<"changes.json">>)}
PropertiesPaths == {Str(<<>>), Str(<<"-">>), Str(<<"props.json">>)}
ResponsePaths == {Str(<<>>), Str(<<"out.json">>)}

Opt(S) == S \cup {None}

NoPutOptions(a) ==
  /\ a.bucket = None /\ a.builder_name = None
  /\ a.changes = None /\ a.properties = None

\* The command lines: every combination of the options of each subcommand,
\* required ones missing included, and an unknown subcommand.
ArgvSet ==
  { a \in [command : Commands \cup {"bogus"}, id : Opt(Ids),
           bucket : Opt(Buckets), builder_name : Opt(Builders),
           changes : Opt(ChangesPaths), properties : Opt(PropertiesPaths),
           response_json : Opt(ResponsePaths), verbose : BOOLEAN] :
      \/ a.command \in {"get", "retry"} /\ NoPutOptions(a)
      \/ a.command = "put" /\ a.id = None
      \/ /\ a.command = "bogus" /\ a.id = None /\ NoPutOptions(a)
         /\ a.response_json = None /\ ~a.verbose }

ObjA1 == <<"{", "\"", "a", "\"", ":", "1", "}">>
ObjBC == <<"{", "\"", "b", "\"", ":", " ", "\"", "c", "\"", "}">>
ChangeTexts == {ObjA1, ObjBC}

RECURSIVE JoinTexts(_)
JoinTexts(ts) ==
  IF ts = <<>> THEN <<>>
  ELSE Head(ts) \o (IF Len(ts) > 1 THEN <<",">> ELSE <<>>) \o JoinTexts(Tail(ts))

\* The texts of the JSON lists of at most MaxChanges change objects.
ListTexts ==
  { <<"[">> \o JoinTexts(ts) \o <<"]">> :
      ts \in UNION { [1..n -> ChangeTexts] : n \in 0..MaxChanges } }

\* Texts that are no JSON document.
BadTexts == { <<>>, <<"[", "1", ",">>, <<"{", "\"", "a", "\"", ":">> }

\* What the changes file may hold: JSON lists, other JSON values, and
\* texts that are no JSON.
ChangesFileTexts ==
  ListTexts \cup BadTexts \cup
  { <<"{", "\"", "not", "\"", ":", "\"", "a list", "\"", "}">>,
    <<"\"", "a", "b", "\"">>,
    <<"1">>,
    <<"null">> }

\* The texts of JSON objects a properties source may hold.
ObjectTexts ==
  { <<"{", "}">>,
    <<"{", "\"", "foo", "\"", ":", "\"", "bar", "\"", ",",
           "\"", "baz", "\"", ":", "4", "2", "}">>,
    <<"{", "\"", "a", "\"", ":", " ", "{", "\"", "b", "\"", ":", " ",
           "[", "1", ",", " ", "null", ",", " ", "true", "]", "}", "}">> }

PropertiesTexts ==
  ObjectTexts \cup BadTexts \cup
  { <<"[", "]">>,
    <<"[", "[", "1", ",", "2", "]", "]">>,
    <<"[", "1", "]">>,
    <<"[", "[", "1", "]", "]">>,
    <<"[", "[", "[", "]", ",", "1", "]", "]">>,
    <<"\"", "a", "b", "\"">>,
    <<"\"", "\"">>,
    <<"1">>,
    <<"null">> }

\* A file as open() finds it.
Unreadable == [readable |-> FALSE]
Holding(text) == [readable |-> TRUE, text |-> text]
NotRead == [readable |-> FALSE, untouched |-> TRUE]

Statuses == {200, 201, 404, 408}

BuildUrlBody ==
  <<"{", "\"", "build", "\"", ":", "{", "\"", "url", "\"", ":",
         "\"", "http://x/1", "\"", "}", "}">>

ResponseBodies ==
  { BuildUrlBody,
    <<"{", "\"", "ok", "\"", ":", "true", "}">>,
    <<"{", "\"", "build", "\"", ":", "{", "}", "}">>,
    <<"{", "\"", "build", "\"", ":", "\"", "url", "\"", "}">>,
    <<"[", "\"", "build", "\"", "]">>,
    <<"null">>,
    <<"Not Found">> }

\* open(path, 'w') followed by write(): both succeed, open fails, or open
\* succeeds (truncating the file) and write fails.
WriteOutcomes == {"ok", "open_fails", "write_fails"}

NoFile == [exists |-> FALSE]
FileWith(text) == [exists |-> TRUE, text |-> text]

NoResponse == [received |-> FALSE]
Response(status, content) ==
  [received |-> TRUE, status |-> status, content |-> content]

---------------------------------------------------------------------------
(* The state of one invocation *)

VARIABLES
  pc,               \* where main() stands
  args,             \* the namespace parse_args() returned
  changes,          \* the local variables of main(); None while unbound
  properties,
  method,
  url,
  body,
  read_changes,     \* what open(args.changes) found
  read_properties,  \* what sys.stdin or open(args.properties) found
  requests,         \* the calls of http.request, in order
  response,         \* (response, content) as http.request returned them
  stdout,           \* the lines printed
  stderr,           \* the lines written to the error stream
  response_file,    \* the file at args.response_json
  fault,            \* the exception that left main(), "none" if none
  exit_status       \* <<>> while running, then <<the exit status>>

vars ==
  <<pc, args, changes, properties, method, url, body, read_changes,
    read_properties, requests, response, stdout, stderr, response_file,
    fault, exit_status>>

NoArgs ==
  [command |-> "", id |-> None, bucket |-> None, builder_name |-> None,
   changes |-> None, properties |-> None, response_json |-> None,
   verbose |-> FALSE]

Init ==
  /\ pc = "start"
  /\ args = NoArgs
  /\ changes = None /\ properties = None
  /\ method = None /\ url = None /\ body = None
  /\ read_changes = NotRead /\ read_properties = NotRead
  /\ requests = <<>>
  /\ response = NoResponse
  /\ stdout = <<>> /\ stderr = <<>>
  /\ response_file = NoFile
  /\ fault = "none"
  /\ exit_status = <<>>

\* parser.parse_args() rejects the command line: an unknown subcommand, a
\* required option missing, or an option of another subcommand.
UsageError(a) ==
  \/ a.command \notin Commands
  \/ a.command \in {"get", "retry"} /\ (a.id = None \/ ~NoPutOptions(a))
  \/ a.command = "put"
       /\ (a.bucket = None \/ a.builder_name = None \/ a.id # None)

\* An exception leaves main() uncaught: the interpreter prints the traceback
\* and exits with status 1.
Uncaught(exc, lines) ==
  /\ pc' = "aborted"
  /\ fault' = exc
  /\ stderr' = stderr \o lines \o << <<"Traceback", ":", " ", exc>> >>
  /\ exit_status' = <<1>>

ParseArgs ==
  /\ pc = "start"
  /\ \E a \in ArgvSet :
       IF UsageError(a)
       THEN /\ pc' = "aborted"
            /\ fault' = "SystemExit"
            /\ stderr' = Append(stderr, <<"usage">>)
            /\ exit_status' = <<2>>
            /\ UNCHANGED args
       ELSE /\ pc' = "dispatch"
            /\ args' = a
            /\ UNCHANGED <<fault, stderr, exit_status>>
  /\ UNCHANGED <<changes, properties, method, url, body, read_changes,
                 read_properties, requests, response, stdout, response_file>>

\* '%s/%s' % (BUILDBUCKET_API_URL, args.id)
GetUrl(id) == BUILDBUCKET_API_URL \o <<"/">> \o id.s

\* As if retry used the URL of get.
RetryUrlAsGet(id) == BUILDBUCKET_API_URL \o <<"/">> \o id.s

\* '%s/%s/retry' % (BUILDBUCKET_API_URL, args.id)
RetryUrl(id) == BUILDBUCKET_API_URL \o <<"/">> \o id.s \o <<"/retry">>

Get ==
  /\ pc = "dispatch" /\ args.command = "get"
  /\ method' = Str(<<"GET">>)
  /\ url' = Str(GetUrl(args.id))
  /\ pc' = "request"
  /\ UNCHANGED <<args, changes, properties, body, read_changes,
                 read_properties, requests, response, stdout, stderr,
                 response_file, fault, exit_status>>

Retry ==
  /\ pc = "dispatch" /\ args.command = "retry"
  /\ method' = Str(<<"PUT">>)
  /\ url' = Str(RetryUrl(args.id))
  /\ pc' = "request"
  /\ UNCHANGED <<args, changes, properties, body, read_changes,
                 read_properties, requests, response, stdout, stderr,
                 response_file, fault, exit_status>>

InvalidList(path) == <<path \o <<" contained invalid JSON list.", "\n">> >>
InvalidDict(path) == <<path \o <<" contained invalid JSON dict.", "\n">> >>

\* As if the parsed value were assigned to changes instead of extending it.
AssignFromText(text) ==
  LET r == Loads(text) IN
    IF ~r.ok THEN Raises("ValueError") ELSE Returns(r.v)

\* changes.extend(json.load(fp)) on the text the file holds.
ExtendFromText(text) ==
  LET r == Loads(text) IN
    IF ~r.ok THEN Raises("ValueError") ELSE ListExtend(List(<<>>), r.v)

\* properties.update(json.load(fp)) on the text the source holds.
UpdateFromText(text) ==
  LET r == Loads(text) IN
    IF ~r.ok THEN Raises("ValueError") ELSE DictUpdate(EmptyDict, r.v)

\* The exceptions the two handlers of the input loading catch.
CaughtOnLoad == {"TypeError", "ValueError"}

PutChanges ==
  /\ pc = "dispatch" /\ args.command = "put"
  /\ IF Truthy(args.changes)
     THEN \E f \in {Unreadable} \cup {Holding(t) : t \in ChangesFileTexts} :
            /\ read_changes' = f
            /\ IF ~f.readable
               THEN Uncaught("IOError", <<>>) /\ UNCHANGED changes
               ELSE LET e == ExtendFromText(f.text) IN
                 IF e.exc \in CaughtOnLoad
                 THEN /\ Uncaught(e.exc, InvalidList(args.changes.s))
                      /\ UNCHANGED changes
                 ELSE /\ changes' = e.v
                      /\ pc' = "properties"
                      /\ UNCHANGED <<fault, stderr, exit_status>>
     ELSE /\ changes' = List(<<>>)
          /\ pc' = "properties"
          /\ UNCHANGED <<read_changes, fault, stderr, exit_status>>
  /\ UNCHANGED <<args, properties, method, url, body, read_properties,
                 requests, response, stdout, response_file>>

\* What the properties source holds: standard input for '-', else the file.
PropertiesSources(path) ==
  IF path = Str(<<"-">>) THEN {Holding(t) : t \in PropertiesTexts}
  ELSE {Unreadable} \cup {Holding(t) : t \in PropertiesTexts}

PutProperties ==
  /\ pc = "properties"
  /\ IF Truthy(args.properties)
     THEN \E f \in PropertiesSources(args.properties) :
            /\ read_properties' = f
            /\ IF ~f.readable
               THEN Uncaught("IOError", <<>>) /\ UNCHANGED properties
               ELSE LET e == UpdateFromText(f.text) IN
                 IF e.exc \in CaughtOnLoad
                 THEN /\ Uncaught(e.exc, InvalidDict(args.properties.s))
                      /\ UNCHANGED properties
                 ELSE /\ properties' = e.v
                      /\ pc' = "body"
                      /\ UNCHANGED <<fault, stderr, exit_status>>
     ELSE /\ properties' = EmptyDict
          /\ pc' = "body"
          /\ UNCHANGED <<read_properties, fault, stderr, exit_status>>
  /\ UNCHANGED <<args, changes, method, url, body, read_changes,
                 requests, response, stdout, response_file>>

\* The parameters of the build, before serialization.
Parameters(builder_name, chs, props) ==
  Dict([k \in {Str(<<"builder_name">>), Str(<<"changes">>),
               Str(<<"properties">>)} |->
          CASE k = Str(<<"builder_name">>) -> builder_name
            [] k = Str(<<"changes">>) -> chs
            [] k = Str(<<"properties">>) -> props])

\* As if the parameters were nested in the body without the inner dumps.
PutBodyTextFlat(bucket, builder_name, chs, props) ==
  Dumps(Dict([k \in {Str(<<"bucket">>), Str(<<"parameters_json">>)} |->
    IF k = Str(<<"bucket">>) THEN bucket
    ELSE Parameters(builder_name, chs, props)]))

\* The request body of put: parameters_json holds the parameters as a JSON
\* text, and the body is serialized again.
PutBodyText(bucket, builder_name, chs, props) ==
  Dumps(Dict([k \in {Str(<<"bucket">>), Str(<<"parameters_json">>)} |->
    IF k = Str(<<"bucket">>) THEN bucket
    ELSE Str(Dumps(Parameters(builder_name, chs, props)))]))

PutBody ==
  /\ pc = "body"
  /\ body' = Str(PutBodyText(args.bucket, args.builder_name, changes, properties))
  /\ method' = Str(<<"PUT">>)
  /\ url' = Str(BUILDBUCKET_API_URL)
  /\ pc' = "request"
  /\ UNCHANGED <<args, changes, properties, read_changes, read_properties,
                 requests, response, stdout, stderr, response_file, fault,
                 exit_status>>

StatusText(status) ==
  CASE status = 200 -> <<"200">> [] status = 201 -> <<"201">>
    [] status = 404 -> <<"404">> [] OTHER -> <<"408">>

VerboseRequest ==
  << <<"Request URL:", " ">> \o url.s,
     <<"Request method:", " ">> \o method.s,
     <<"Request body:", " ">> \o Format(body) >>

VerboseResponse(status, content) ==
  << <<"Response:", " ">> \o StatusText(status),
     <<"Content:", " ">> \o content >>

\* As if a response other than 200 sent the request again.
RequestEnabledAgain ==
  \/ pc = "request"
  \/ pc = "response" /\ response.status # 200 /\ Len(requests) < 3

\* main() reaches http.request once, after the request is assembled.
RequestEnabled == pc = "request"

\* http.request is called: the one request of the invocation goes out, and
\* main() blocks until the call returns.
Request ==
  /\ RequestEnabled
  /\ requests' = Append(requests,
       [url |-> url, method |-> method, body |-> body,
        headers |-> ContentTypeHeaders])
  /\ stdout' = IF args.verbose THEN stdout \o VerboseRequest ELSE stdout
  /\ pc' = "waiting"
  /\ UNCHANGED <<args, changes, properties, method, url, body, read_changes,
                 read_properties, response, stderr, response_file, fault,
                 exit_status>>

\* http.request returns.  force_exception_to_status_code makes a transport
\* fault a response with an error status, never an exception.
Receive ==
  /\ pc = "waiting"
  /\ \E status \in Statuses, content \in ResponseBodies :
       /\ response' = Response(status, content)
       /\ stdout' = IF args.verbose
                    THEN stdout \o VerboseResponse(status, content)
                    ELSE stdout
  /\ pc' = "response"
  /\ UNCHANGED <<args, changes, properties, method, url, body, read_changes,
                 read_properties, requests, stderr, response_file, fault,
                 exit_status>>

\* As if a missing 'url' read as None (dict.get) instead of raising.
BuildUrlOrNone(content_json) ==
  LET b == GetItem(content_json, Str(<<"build">>)) IN
    IF b.exc # "none" THEN b
    ELSE IF IsDict(b.v) /\ Str(<<"url">>) \notin DOMAIN b.v.d THEN Returns(None)
    ELSE GetItem(b.v, Str(<<"url">>))

\* content_json['build']['url']
BuildUrl(content_json) ==
  LET b == GetItem(content_json, Str(<<"build">>)) IN
    IF b.exc # "none" THEN b ELSE GetItem(b.v, Str(<<"url">>))

\* As if the handler forgot KeyError.
CaughtOnResponseNarrow == {"ValueError", "TypeError"}

\* The exceptions the handler of the response block catches.
CaughtOnResponse == {"ValueError", "TypeError", "KeyError"}

\* As if the response file were written before the body is parsed.
ResponseWritesAlways(path, parsed) ==
  IF Truthy(path) THEN WriteOutcomes ELSE {"none"}

\* The writes of the response file the try block attempts: one when the
\* body parsed and a path was given, none otherwise.
ResponseWrites(path, parsed) ==
  IF parsed /\ Truthy(path) THEN WriteOutcomes ELSE {"none"}

\* The try block after the response: parse the body, write it to the
\* response file, print the build URL.
Decorate ==
  /\ pc = "response"
  /\ LET r == Loads(response.content) IN
       \E w \in ResponseWrites(args.response_json, r.ok) :
         /\ response_file' =
              CASE w = "ok" -> FileWith(response.content)
                [] w = "write_fails" -> FileWith(<<>>)
                [] OTHER -> response_file
         /\ LET exc == IF ~r.ok THEN "ValueError"
                       ELSE IF w \in {"open_fails", "write_fails"} THEN "IOError"
                       ELSE BuildUrl(r.v).exc
            IN IF exc = "none"
               THEN /\ stdout' = Append(stdout, <<"Build: ">> \o Format(BuildUrl(r.v).v))
                    /\ pc' = "return"
                    /\ UNCHANGED <<stderr, fault, exit_status>>
               ELSE IF exc \in CaughtOnResponse
               THEN /\ pc' = "return"
                    /\ UNCHANGED <<stdout, stderr, fault, exit_status>>
               ELSE Uncaught(exc, <<>>) /\ UNCHANGED stdout
  /\ UNCHANGED <<args, changes, properties, method, url, body, read_changes,
                 read_properties, requests, response>>

\* As if any 2xx status counted as success.
ExitCode2xx(status) == IF status \in 200..299 THEN 0 ELSE 1

\* return response.status != 200, handed to sys.exit: True exits with 1.
ExitCode(status) == IF status # 200 THEN 1 ELSE 0

Return ==
  /\ pc = "return"
  /\ exit_status' = <<ExitCode(response.status)>>
  /\ pc' = "done"
  /\ UNCHANGED <<args, changes, properties, method, url, body, read_changes,
                 read_properties, requests, response, stdout, stderr,
                 response_file, fault>>

Next ==
  \/ ParseArgs
  \/ Get
  \/ Retry
  \/ PutChanges
  \/ PutProperties
  \/ PutBody
  \/ Request
  \/ Receive
  \/ Decorate
  \/ Return

Spec == Init /\ [][Next]_vars

---------------------------------------------------------------------------
(* Vocabulary of the properties *)

Contains(seq, e) == \E i \in DOMAIN seq : seq[i] = e

\* main() has left the try block that follows the response.
Decorated == response.received /\ pc # "response"

Exited == exit_status # <<>>

\* The exit status the status-code rule gives.
ByStatusRule == exit_status = <<IF response.status = 200 THEN 0 ELSE 1>>

BodyParses == Loads(response.content).ok

\* The response body is a JSON object whose 'build' member is an object
\* with a 'url' member.
HasBuildUrl ==
  LET r == Loads(response.content) IN
    /\ r.ok /\ IsDict(r.v)
    /\ Str(<<"build">>) \in DOMAIN r.v.d
    /\ IsDict(r.v.d[Str(<<"build">>)])
    /\ Str(<<"url">>) \in DOMAIN r.v.d[Str(<<"build">>)].d

BuildLinePrinted == \E i \in DOMAIN stdout : Head(stdout[i]) = "Build: "

BaseApiUrl ==
  <<"https://cr-buildbucket.appspot.com", "/", "_ah/api/buildbucket/v1/builds">>

---------------------------------------------------------------------------
(* C1 *)

\* C1, as stated: once a response was received, the process exits with 0
\* if and only if the status is exactly 200, and with 1 for every other
\* status, whatever the body.
C1_ExitIffStatus200 ==
  (response.received /\ Exited) =>
    /\ exit_status = <<0>> <=> response.status = 200
    /\ response.status # 200 => exit_status = <<1>>

\* C1, amended: once a response was received, the exit status is 0 exactly
\* for status 200 and 1 for every other status, unless the write of the
\* response file raised an uncaught IOError; that fault (possible only with
\* a non-empty --response-json path and a body that parses) exits with 1
\* whatever the status.
C1_ExitByStatusUnlessFault ==
  (response.received /\ Exited) =>
    /\ fault = "none" => ByStatusRule
    /\ fault # "none" =>
         /\ fault = "IOError" /\ exit_status = <<1>>
         /\ Truthy(args.response_json) /\ BodyParses

C1_Witness ==
  /\ pc = "done" /\ response.received /\ response.status = 201
  /\ response.content = BuildUrlBody /\ exit_status = <<1>>

---------------------------------------------------------------------------
(* C2 *)

\* C2, as stated: a changes file holding valid JSON whose top-level value
\* is not a list makes put abort, with '<path> contained invalid JSON
\* list.' on the error stream and no request issued.
C2_NonListChangesAbort ==
  (read_changes.readable /\ Loads(read_changes.text).ok
     /\ ~IsList(Loads(read_changes.text).v)) =>
    /\ pc = "aborted"
    /\ Contains(stderr, args.changes.s \o <<" contained invalid JSON list.", "\n">>)
    /\ requests = <<>>

---------------------------------------------------------------------------
(* C3 *)

\* C3, as stated: a properties source whose content is not a valid JSON
\* object makes put write '<path> contained invalid JSON dict.' to the
\* error stream and abort before any request.
C3_NonDictPropertiesAbort ==
  (read_properties.readable
     /\ (~Loads(read_properties.text).ok
           \/ ~IsDict(Loads(read_properties.text).v))) =>
    /\ pc = "aborted"
    /\ Contains(stderr, args.properties.s \o <<" contained invalid JSON dict.", "\n">>)
    /\ requests = <<>>

---------------------------------------------------------------------------
(* C4 *)

\* C4, as stated: after the response, the response file is written if and
\* only if a --response-json path was supplied (an empty path counting as
\* none) and the body parses as JSON;
\* when written it holds exactly the raw body; when the body is not JSON no
\* file is written and no error is reported.
C4_FileIffPathAndJson ==
  Decorated =>
    /\ response_file.exists <=> (Truthy(args.response_json) /\ BodyParses)
    /\ response_file.exists => response_file.text = response.content
    /\ ~BodyParses => (response_file = NoFile /\ fault = "none" /\ stderr = <<>>)

\* C4, amended: after the response, the response file holds exactly the raw
\* body if and only if a --response-json path was supplied, the body parses
\* as JSON and opening and writing the file succeed, whether or not the
\* body has build.url; when the body is not JSON no file is written and no
\* error is reported; when the open or the write fails the process aborts
\* on the uncaught IOError, the file not written or left truncated.
C4_FileIffPathJsonAndWritable ==
  Decorated =>
    /\ fault = "none" =>
         /\ response_file.exists <=> (Truthy(args.response_json) /\ BodyParses)
         /\ response_file.exists => response_file.text = response.content
    /\ fault # "none" =>
         /\ fault = "IOError" /\ pc = "aborted"
         /\ Truthy(args.response_json) /\ BodyParses
         /\ response_file \in {NoFile, FileWith(<<>>)}
    /\ ~BodyParses => (response_file = NoFile /\ fault = "none" /\ stderr = <<>>)

C4_Witness ==
  /\ pc = "done" /\ args.response_json = Str(<<"out.json">>)
  /\ response.content = <<"{", "\"", "ok", "\"", ":", "true", "}">>
  /\ response_file = FileWith(response.content)
  /\ ~HasBuildUrl

---------------------------------------------------------------------------
(* C5 *)

\* C5, as stated: after the response, 'Build: <url>' is printed if and only
\* if the body is a JSON object with build.url; in every other case nothing
\* is printed for it, no error is reported and the exit follows the
\* status-code rule.
C5_BuildLineIffBuildUrl ==
  Decorated =>
    /\ BuildLinePrinted <=> HasBuildUrl
    /\ ~HasBuildUrl =>
         /\ fault = "none" /\ stderr = <<>>
         /\ Exited => ByStatusRule

\* C5, amended: after the response, 'Build: <url>' is printed if and only
\* if the body is a JSON object with build.url and the write of the response
\* file raised no IOError; when no such fault occurred, in every other case
\* nothing is printed for it, no error is reported and the exit follows the
\* status-code rule.
C5_BuildLineIffBuildUrlAndNoFault ==
  Decorated =>
    /\ BuildLinePrinted <=> (HasBuildUrl /\ fault = "none")
    /\ BuildLinePrinted =>
         Contains(stdout, <<"Build: ">> \o
           Format(Loads(response.content).v.d[Str(<<"build">>)].d[Str(<<"url">>)]))
    /\ (~HasBuildUrl /\ fault = "none") =>
         /\ stderr = <<>> /\ pc # "aborted"
         /\ Exited => ByStatusRule
    /\ fault # "none" => (fault = "IOError" /\ Truthy(args.response_json))

C5_Witness ==
  /\ pc = "done" /\ response.status = 200 /\ response.content = BuildUrlBody
  /\ Contains(stdout, <<"Build: ", "http://x/1">>)
  /\ exit_status = <<0>>

---------------------------------------------------------------------------
(* C6 *)

\* The changes file held a JSON list, or none was given.
ChangesGiven ==
  IF Truthy(args.changes)
  THEN read_changes.readable /\ Loads(read_changes.text).ok
         /\ IsList(Loads(read_changes.text).v)
  ELSE TRUE

\* The properties source held a JSON object, or none was given.
PropertiesGiven ==
  IF Truthy(args.properties)
  THEN read_properties.readable /\ Loads(read_properties.text).ok
         /\ IsDict(Loads(read_properties.text).v)
  ELSE TRUE

ListC == IF Truthy(args.changes) THEN Loads(read_changes.text).v ELSE List(<<>>)
ObjectP == IF Truthy(args.properties) THEN Loads(read_properties.text).v ELSE EmptyDict

\* What C6 says of a sent request r.
PutRequestCarries(r) ==
  /\ r.method = Str(<<"PUT">>)
  /\ r.url = Str(BaseApiUrl)
  /\ IsStr(r.body)
  /\ LET b == Loads(r.body.s) IN
       /\ b.ok /\ IsDict(b.v)
       /\ DOMAIN b.v.d = {Str(<<"bucket">>), Str(<<"parameters_json">>)}
       /\ b.v.d[Str(<<"bucket">>)] = args.bucket
       /\ IsStr(b.v.d[Str(<<"parameters_json">>)])
       /\ LET q == Loads(b.v.d[Str(<<"parameters_json">>)].s) IN
            /\ q.ok /\ IsDict(q.v)
            /\ DOMAIN q.v.d = {Str(<<"builder_name">>), Str(<<"changes">>),
                               Str(<<"properties">>)}
            /\ q.v.d[Str(<<"builder_name">>)] = args.builder_name
            /\ q.v.d[Str(<<"changes">>)] = ListC
            /\ q.v.d[Str(<<"properties">>)] = ObjectP

\* C6: put with bucket B, builder N, changes list C and properties object P
\* issues one PUT to the base API URL whose body decodes to an object with
\* exactly bucket = B and parameters_json = a string, which decodes to
\* exactly {builder_name: N, changes: C, properties: P}.  Stated of every
\* step that issues a request.
C6_PutBodyRoundTrip ==
  [][(requests' # requests /\ args.command = "put"
        /\ ChangesGiven /\ PropertiesGiven) =>
       /\ Len(requests') = 1
       /\ PutRequestCarries(requests'[1])]_vars

C6_Witness ==
  /\ requests # <<>> /\ args.command = "put"
  /\ read_changes = Holding(<<"[">> \o ObjA1 \o <<"]">>)
  /\ args.properties = Str(<<"-">>)
  /\ read_properties =
       Holding(<<"{", "\"", "foo", "\"", ":", "\"", "bar", "\"", ",",
                      "\"", "baz", "\"", ":", "4", "2", "}">>)

---------------------------------------------------------------------------
(* C7 *)

\* C7: get issues GET base/X and retry issues PUT base/X/retry, both with
\* no body and with the header Content-Type: application/json.
C7_GetAndRetryRequests ==
  (requests # <<>> /\ args.command \in {"get", "retry"}) =>
    /\ Len(requests) = 1
    /\ requests[1].body = None
    /\ requests[1].headers.d[Str(<<"Content-Type">>)] = Str(<<"application/json">>)
    /\ args.command = "get" =>
         /\ requests[1].method = Str(<<"GET">>)
         /\ requests[1].url = Str(BaseApiUrl \o <<"/">> \o args.id.s)
    /\ args.command = "retry" =>
         /\ requests[1].method = Str(<<"PUT">>)
         /\ requests[1].url = Str(BaseApiUrl \o <<"/">> \o args.id.s \o <<"/retry">>)

C7_Witness ==
  /\ args.command = "retry" /\ args.id = Str(<<"4", "2">>)
  /\ requests # <<>>
  /\ requests[1].url = Str(BaseApiUrl \o <<"/", "4", "2", "/retry">>)

---------------------------------------------------------------------------
(* C8 *)

Terminated == pc \in {"done", "aborted"}

\* The command line parsed and, for put, both inputs loaded.
InputsLoaded ==
  \/ args.command \in {"get", "retry"}
  \/ args.command = "put" /\ IsList(changes) /\ IsDict(properties)

C8_CallCount ==
  /\ Len(requests) <= 1
  /\ pc = "waiting" => (Len(requests) = 1 /\ ~response.received)
  /\ response.received => Len(requests) = 1
  /\ Terminated => (Len(requests) = 1 <=> InputsLoaded)
  /\ (Terminated /\ ~response.received) =>
       /\ requests = <<>>
       /\ fault \in {"SystemExit", "ValueError", "TypeError", "IOError"}

\* C8: one invocation issues at most one request: exactly one when the
\* command line parses and the inputs load, none when it aborts on a usage
\* error, an invalid JSON input or an unreadable file; and once a response
\* is received no further request is issued.
C8_AtMostOneCall ==
  /\ []C8_CallCount
  /\ [][response.received => requests' = requests]_vars

C8_Witness ==
  /\ pc = "done" /\ response.status = 408 /\ Len(requests) = 1

---------------------------------------------------------------------------
(* C9 *)

\* C9, as stated: once the response is received, no fault of the URL
\* extraction or of the response-file step is reported or fatal, a failure
\* to open or write the --response-json path included: the process does not
\* abort, and exits by the status-code rule.
C9_NoFaultAfterResponse ==
  response.received =>
    /\ fault = "none" /\ stderr = <<>> /\ pc # "aborted"
    /\ Exited => ByStatusRule

\* C9, amended: once the response is received, the faults of parsing the
\* body and of extracting build.url (a body that is no JSON, or of another
\* shape) are silently ignored, neither reported nor fatal, and the exit
\* follows the status-code rule; a failure to open or write the
\* --response-json path when the body is valid JSON is not caught: the
\* process aborts on the IOError with exit status 1, whatever the status.
C9_OnlyWriteFaultIsFatal ==
  Decorated =>
    \/ /\ fault = "none" /\ pc \in {"return", "done"}
       /\ stderr = <<>>
       /\ Exited => ByStatusRule
    \/ /\ fault = "IOError" /\ pc = "aborted"
       /\ Truthy(args.response_json) /\ BodyParses
       /\ response_file # FileWith(response.content)
       /\ Len(stderr) = 1
       /\ exit_status = <<1>>

C9_Witness ==
  /\ pc = "aborted" /\ response.received /\ response.status = 200
  /\ fault = "IOError" /\ exit_status = <<1>>

---------------------------------------------------------------------------
(* C10 *)

\* What C10 says of a sent request r.
ChangesListPropertiesDict(r) ==
  /\ IsStr(r.body)
  /\ LET b == Loads(r.body.s) IN
       /\ b.ok /\ IsDict(b.v)
       /\ Str(<<"parameters_json">>) \in DOMAIN b.v.d
       /\ IsStr(b.v.d[Str(<<"parameters_json">>)])
       /\ LET q == Loads(b.v.d[Str(<<"parameters_json">>)].s) IN
            /\ q.ok /\ IsDict(q.v)
            /\ {Str(<<"changes">>), Str(<<"properties">>)} \subseteq DOMAIN q.v.d
            /\ IsList(q.v.d[Str(<<"changes">>)])
            /\ IsDict(q.v.d[Str(<<"properties">>)])

\* C10: in every put request sent, whatever the changes file and the
\* properties source held, the decoded parameters_json has a list as
\* 'changes' and an object as 'properties'.  Stated of every step that
\* issues a request.
C10_ChangesListPropertiesDict ==
  [][(requests' # requests /\ args.command = "put") =>
       \A i \in DOMAIN requests' : ChangesListPropertiesDict(requests'[i])]_vars

C10_Witness ==
  /\ requests # <<>> /\ args.command = "put"
  /\ read_changes =
       Holding(<<"{", "\"", "not", "\"", ":", "\"", "a list", "\"", "}">>)
  /\ read_properties = Holding(<<"[", "[", "1", ",", "2", "]", "]">>)

=============================================================================
